---- MODULE Spec2Model ----
(***************************************************************************)
(* The NIR pass nir_lower_system_values (nir_lower_system_values.c) and    *)
(* the per-gen macros GEN_GEN / GEN_IS_HASWELL (gen_macros.h).             *)
(*                                                                         *)
(* A shader is a sequence of functions; a function either has no body or   *)
(* has a sequence of blocks; a block is the sequence of its instructions   *)
(* (the exec_list instr_list, head first).  An SSA definition is named by  *)
(* the id of the instruction that defines it; a use is an entry of an      *)
(* instruction's srcs.  Id 0 is the NULL pointer / list sentinel.          *)
(***************************************************************************)
EXTENDS Integers, Sequences, FiniteSets, TLC

(* ---------------- bounds of the explored inputs ---------------- *)
MaxFuncs == 2
MaxBlocks == 2
MaxInstrs == 3

(* ---------------- instructions ---------------- *)
NoVar == [mode |-> "none", location |-> "none"]

SysvalVar(loc) == [mode |-> "nir_var_system_value", location |-> loc]

LocalVar == [mode |-> "nir_var_local", location |-> "none"]

MkInstr(id, type, op, var, srcs, swizzle, value, nc) ==
  [id |-> id, type |-> type, op |-> op, var |-> var, srcs |-> srcs,
   swizzle |-> swizzle, value |-> value, num_components |-> nc]

(* ---------------- exec_list operations on a block ---------------- *)
IndexOf(block, id) == CHOOSE i \in 1..Len(block) : block[i].id = id

HasInstr(block, id) == \E i \in 1..Len(block) : block[i].id = id

HeadId(block) == IF Len(block) = 0 THEN 0 ELSE block[1].id

NextId(block, id) ==
  IF id = 0 \/ ~HasInstr(block, id) THEN 0
  ELSE IF IndexOf(block, id) = Len(block) THEN 0
  ELSE block[IndexOf(block, id) + 1].id

InsertAfter(block, id, instr) ==
  LET i == IndexOf(block, id)
  IN  SubSeq(block, 1, i) \o <<instr>> \o SubSeq(block, i + 1, Len(block))

nir_instr_remove(block, id) ==
  LET i == IndexOf(block, id)
  IN  SubSeq(block, 1, i - 1) \o SubSeq(block, i + 1, Len(block))

RewriteSrcs(srcs, old, new) ==
  [k \in 1..Len(srcs) |-> IF srcs[k] = old THEN new ELSE srcs[k]]

(* nir_ssa_def_rewrite_uses: every src on the use list of `old`, in any    *)
(* block of the function, is made to point at `new`.                       *)
nir_ssa_def_rewrite_uses(blocks, old, new) ==
  [bk \in 1..Len(blocks) |->
     [k \in 1..Len(blocks[bk]) |->
        [blocks[bk][k] EXCEPT !.srcs = RewriteSrcs(@, old, new)]]]

(* ---------------- nir_builder ---------------- *)
(* A builder is the block being edited, the cursor (the instruction after  *)
(* which the next one is inserted) and the next free SSA index.            *)
MkBuilder(block, cursor, index) ==
  [block |-> block, cursor |-> cursor, index |-> index]

(* nir_builder_instr_insert: insert at the cursor, move the cursor after   *)
(* the inserted instruction.  The new definition is b.cursor afterwards.   *)
nir_builder_instr_insert(b, instr) ==
  [block |-> InsertAfter(b.block, b.cursor, instr),
   cursor |-> instr.id,
   index |-> b.index + 1]

DefComponents(block, id) == block[IndexOf(block, id)].num_components

DestComponents(op) ==
  IF op \in {"load_work_group_id", "load_local_invocation_id"} THEN 3 ELSE 1

nir_load_system_value(b, op) ==
  nir_builder_instr_insert(b,
    MkInstr(b.index, "intrinsic", op, NoVar, <<>>, <<>>, <<>>, DestComponents(op)))

Max(a, c) == IF a >= c THEN a ELSE c

nir_build_alu(b, op, src0, src1) ==
  nir_builder_instr_insert(b,
    MkInstr(b.index, "alu", op, NoVar, <<src0, src1>>, <<>>, <<>>,
            Max(DefComponents(b.block, src0), DefComponents(b.block, src1))))

nir_imul(b, src0, src1) == nir_build_alu(b, "imul", src0, src1)

nir_iadd(b, src0, src1) == nir_build_alu(b, "iadd", src0, src1)

(* nir_channel: an imov whose single source is swizzled to component c.    *)
nir_channel(b, def, c) ==
  nir_builder_instr_insert(b,
    MkInstr(b.index, "alu", "imov", NoVar, <<def>>, <<c>>, <<>>, 1))

nir_build_imm(b, nc, value) ==
  nir_builder_instr_insert(b,
    MkInstr(b.index, "load_const", "load_const", NoVar, <<>>, <<>>, value, nc))

nir_imm_int(b, x) == nir_build_imm(b, 1, <<x>>)

(* ---------------- the lowering of one system value ---------------- *)
(* The builder calls convert_block makes for one system value, in the      *)
(* order they are evaluated.  An operand (a, b) is the position in the     *)
(* list of the call whose result it is.  `order` is the order in which the *)
(* compiler evaluates the arguments of a call, which C leaves unspecified: *)
(* "ltr" or "rtl".                                                         *)
ArgOrders == {"ltr", "rtl"}

Call(fn, op, a, b, c, nc, value) ==
  [fn |-> fn, op |-> op, a |-> a, b |-> b, c |-> c, nc |-> nc, value |-> value]

Load(op) == Call("nir_load_system_value", op, 0, 0, 0, 0, <<>>)

Imm(nc, value) == Call("nir_build_imm", "load_const", 0, 0, 0, nc, value)

ImmInt(x) == Call("nir_imm_int", "load_const", 0, 0, 0, 1, <<x>>)

Imul(a, b) == Call("nir_imul", "imul", a, b, 0, 0, <<>>)

Iadd(a, b) == Call("nir_iadd", "iadd", a, b, 0, 0, <<>>)

Channel(a, c) == Call("nir_channel", "imov", a, 0, c, 0, <<>>)

(* group_id * local_id + local_size: the operands of the add and of the    *)
(* multiply exchanged.                                                     *)
GlobalInvocationIdCallsSwapped(size) ==
  <<Load("load_work_group_id"),
    Load("load_local_invocation_id"),
    Imm(3, size),
    Imul(1, 2),
    Iadd(4, 3)>>

(* sysval = nir_iadd(b, nir_imul(b, group_id, nir_build_imm(b, 3,          *)
(*                   local_size)), local_id);                              *)
GlobalInvocationIdCalls(size) ==
  <<Load("load_work_group_id"),
    Load("load_local_invocation_id"),
    Imm(3, size),
    Imul(1, 3),
    Iadd(4, 2)>>

(* local_id.y multiplied by size_y instead of size_x.                      *)
LocalInvocationIndexCallsSizeY(size, order) ==
  <<Load("load_local_invocation_id"),
    ImmInt(size[1]),
    ImmInt(size[2])>>
  \o (IF order = "ltr"
      THEN <<Channel(1, 2), Imul(2, 3), Imul(4, 5)>>
      ELSE <<Imul(2, 3), Channel(1, 2), Imul(5, 4)>>)
  \o <<Channel(1, 1),
       Imul(7, 3),
       Iadd(6, 8),
       Channel(1, 0),
       Iadd(9, 10)>>

(* sysval = nir_imul(b, nir_channel(b, local_id, 2),                       *)
(*                      nir_imul(b, size_x, size_y));                      *)
(* sysval = nir_iadd(b, sysval,                                            *)
(*                      nir_imul(b, nir_channel(b, local_id, 1), size_x)); *)
(* sysval = nir_iadd(b, sysval, nir_channel(b, local_id, 0));              *)
LocalInvocationIndexCalls(size, order) ==
  <<Load("load_local_invocation_id"),
    ImmInt(size[1]),
    ImmInt(size[2])>>
  \o (IF order = "ltr"
      THEN <<Channel(1, 2), Imul(2, 3), Imul(4, 5)>>
      ELSE <<Imul(2, 3), Channel(1, 2), Imul(5, 4)>>)
  \o <<Channel(1, 1),
       Imul(7, 2),
       Iadd(6, 8),
       Channel(1, 0),
       Iadd(9, 10)>>

(* nir_iadd(b, nir_load_system_value(b, op0, 0),                           *)
(*             nir_load_system_value(b, op1, 0))                           *)
AddOfTwoLoads(op0, op1, order) ==
  IF order = "ltr"
  THEN <<Load(op0), Load(op1), Iadd(1, 2)>>
  ELSE <<Load(op1), Load(op0), Iadd(2, 1)>>

(* The test of vertex_id_zero_based inverted.                              *)
VertexIdCallsInverted(zero_based, order) ==
  IF ~zero_based
  THEN AddOfTwoLoads("load_vertex_id_zero_base", "load_base_vertex", order)
  ELSE <<Load("load_vertex_id")>>

VertexIdCalls(zero_based, order) ==
  IF zero_based
  THEN AddOfTwoLoads("load_vertex_id_zero_base", "load_base_vertex", order)
  ELSE <<Load("load_vertex_id")>>

InstanceIndexCalls(order) ==
  AddOfTwoLoads("load_instance_id", "load_base_instance", order)

(* nir_intrinsic_from_system_value, for the system values of the model.    *)
nir_intrinsic_from_system_value(location) ==
  CASE location = "SYSTEM_VALUE_INSTANCE_ID" -> "load_instance_id"
    [] location = "SYSTEM_VALUE_FRONT_FACE" -> "load_front_face"
    [] location = "SYSTEM_VALUE_VERTEX_ID" -> "load_vertex_id"
    [] location = "SYSTEM_VALUE_BASE_VERTEX" -> "load_base_vertex"

DefaultCalls(location) == <<Load(nir_intrinsic_from_system_value(location))>>

(* switch (var->data.location) *)
SysvalCalls(location, size, zero_based, order) ==
  CASE location = "SYSTEM_VALUE_GLOBAL_INVOCATION_ID" ->
         GlobalInvocationIdCalls(size)
    [] location = "SYSTEM_VALUE_LOCAL_INVOCATION_INDEX" ->
         LocalInvocationIndexCalls(size, order)
    [] location = "SYSTEM_VALUE_VERTEX_ID" ->
         VertexIdCalls(zero_based, order)
    [] location = "SYSTEM_VALUE_INSTANCE_INDEX" ->
         InstanceIndexCalls(order)
    [] OTHER -> DefaultCalls(location)

(* One builder call; defs[k] is the value the k-th call returned.          *)
RunCall(b, call, defs) ==
  CASE call.fn = "nir_load_system_value" -> nir_load_system_value(b, call.op)
    [] call.fn = "nir_build_imm" -> nir_build_imm(b, call.nc, call.value)
    [] call.fn = "nir_imm_int" -> nir_imm_int(b, call.value[1])
    [] call.fn = "nir_imul" -> nir_imul(b, defs[call.a], defs[call.b])
    [] call.fn = "nir_iadd" -> nir_iadd(b, defs[call.a], defs[call.b])
    [] call.fn = "nir_channel" -> nir_channel(b, defs[call.a], call.c)

(* The calls in order, each inserting at the cursor the previous one left. *)
(* The value of the last call is the one assigned to sysval.               *)
RECURSIVE RunCalls(_, _, _)
RunCalls(b, calls, defs) ==
  IF Len(defs) = Len(calls)
  THEN [b |-> b, sysval |-> defs[Len(defs)]]
  ELSE LET b1 == RunCall(b, calls[Len(defs) + 1], defs)
       IN  RunCalls(b1, calls, Append(defs, b1.cursor))

LowerSysval(b, location, size, zero_based, order) ==
  RunCalls(b, SysvalCalls(location, size, zero_based, order), <<>>)

(* The three `continue` tests of convert_block.                            *)
IsSystemValueRead(i) ==
  /\ i.type = "intrinsic"
  /\ i.op = "load_var"
  /\ i.var.mode = "nir_var_system_value"

(* The read removed while its uses still point at it.                      *)
RemoveWithoutRewrite(blocks, bk, load_var, sysval) ==
  [blocks EXCEPT ![bk] = nir_instr_remove(@, load_var)]

(* The uses redirected but the read left in its block.                     *)
RewriteWithoutRemove(blocks, bk, load_var, sysval) ==
  nir_ssa_def_rewrite_uses(blocks, load_var, sysval)

(* nir_ssa_def_rewrite_uses(&load_var->dest.ssa, nir_src_for_ssa(sysval)); *)
(* nir_instr_remove(&load_var->instr);                                     *)
RewriteAndRemove(blocks, bk, load_var, sysval) ==
  LET rewritten == nir_ssa_def_rewrite_uses(blocks, load_var, sysval)
  IN  [rewritten EXCEPT ![bk] = nir_instr_remove(@, load_var)]

(* ---------------- the shaders the pass is run on ---------------- *)
RECURSIVE Sum(_)
Sum(s) == IF Len(s) = 0 THEN 0 ELSE s[1] + Sum(Tail(s))

(* A function shape: no body, or the lengths of the non-empty blocks of    *)
(* its body.  Every body ends with its end_block, which is always empty    *)
(* and which nir_foreach_block visits last.                                *)
BlockLens ==
  {l \in UNION {[1..k -> 1..MaxInstrs] : k \in 0..MaxBlocks} : Sum(l) <= MaxInstrs}

FuncShapes ==
  {[impl |-> FALSE, lens |-> <<>>]} \cup {[impl |-> TRUE, lens |-> l] : l \in BlockLens}

ShapeTotal(shape) == Sum([f \in 1..Len(shape) |-> Sum(shape[f].lens)])

ShaderShapes ==
  {sh \in UNION {[1..f -> FuncShapes] : f \in 0..MaxFuncs} : ShapeTotal(sh) <= MaxInstrs}

(* Instructions before function f / before block bk of function f.         *)
FuncOffset(shape, f) == ShapeTotal(SubSeq(shape, 1, f - 1))

BlockOffset(shape, f, bk) ==
  FuncOffset(shape, f) + Sum(SubSeq(shape[f].lens, 1, bk - 1))

Locations ==
  {"SYSTEM_VALUE_GLOBAL_INVOCATION_ID", "SYSTEM_VALUE_LOCAL_INVOCATION_INDEX",
   "SYSTEM_VALUE_VERTEX_ID", "SYSTEM_VALUE_INSTANCE_INDEX",
   "SYSTEM_VALUE_INSTANCE_ID"}

(* What an instruction of the input can be: a load_var of a system value,  *)
(* a load_var of a local, an ALU instruction or a store_output using the   *)
(* value defined `back` instructions earlier in the same function.         *)
Palette ==
  {[kind |-> "sysval", loc |-> l, back |-> 0] : l \in Locations}
  \cup {[kind |-> "local", loc |-> "none", back |-> 0]}
  \cup {[kind |-> k, loc |-> "none", back |-> d] :
          k \in {"alu", "store"}, d \in 1..(MaxInstrs - 1)}

LoadVarComponents(loc) ==
  IF loc = "SYSTEM_VALUE_GLOBAL_INVOCATION_ID" THEN 3 ELSE 1

InputInstr(id, item, nc) ==
  CASE item.kind = "sysval" ->
         MkInstr(id, "intrinsic", "load_var", SysvalVar(item.loc), <<>>, <<>>, <<>>,
                 LoadVarComponents(item.loc))
    [] item.kind = "local" ->
         MkInstr(id, "intrinsic", "load_var", LocalVar, <<>>, <<>>, <<>>, 1)
    [] item.kind = "alu" ->
         MkInstr(id, "alu", "ineg", NoVar, <<id - item.back>>, <<>>, <<>>, nc)
    [] item.kind = "store" ->
         MkInstr(id, "intrinsic", "store_output", NoVar, <<id - item.back>>,
                 <<>>, <<>>, 0)

(* SSA form: a use refers to a value defined earlier in the same function. *)
WellFormedItems(shape, items) ==
  \A f \in 1..Len(shape) :
    \A p \in (FuncOffset(shape, f) + 1)..FuncOffset(shape, f + 1) :
      items[p].back > 0 =>
        /\ p - items[p].back > FuncOffset(shape, f)
        /\ items[p - items[p].back].kind # "store"

RECURSIVE ItemComponents(_, _)
ItemComponents(items, p) ==
  CASE items[p].kind = "sysval" -> LoadVarComponents(items[p].loc)
    [] items[p].kind = "local" -> 1
    [] items[p].kind = "alu" -> ItemComponents(items, p - items[p].back)
    [] OTHER -> 0

EndBlock == <<>>

BuildFunctions(shape, items) ==
  [f \in 1..Len(shape) |->
     [impl |-> shape[f].impl,
      blocks |->
        IF shape[f].impl
        THEN [bk \in 1..Len(shape[f].lens) |->
                [k \in 1..shape[f].lens[bk] |->
                   LET p == BlockOffset(shape, f, bk) + k
                   IN  InputInstr(p, items[p], ItemComponents(items, p))]]
             \o <<EndBlock>>
        ELSE <<>>]]

(* The sequence of instruction ids of a block.                             *)
Ids(block) == [k \in 1..Len(block) |-> block[k].id]

(* The declared system-value variables: those the items read, in order.    *)
RECURSIVE DeclaredVars(_)
DeclaredVars(items) ==
  IF Len(items) = 0 THEN <<>>
  ELSE LET rest == DeclaredVars(SubSeq(items, 1, Len(items) - 1))
           it == items[Len(items)]
       IN  IF it.kind = "sysval" /\ \A k \in 1..Len(rest) : rest[k] # SysvalVar(it.loc)
           THEN Append(rest, SysvalVar(it.loc))
           ELSE rest

(* ---------------- state ---------------- *)
VARIABLES
  functions,            \* shader->functions: <<[impl, blocks]>>
  system_values,        \* shader->system_values, the declared variables
  local_size,           \* shader->info.cs.local_size
  vertex_id_zero_based, \* shader->options->vertex_id_zero_based
  ssa_index,            \* the next free SSA index
  pc,                   \* where the pass is
  fi,                   \* nir_foreach_function: index of `function`
  bi,                   \* nir_foreach_block: index of `block`
  instr,                \* nir_foreach_instr_safe: id of `instr`, 0 at the end
  next,                 \* nir_foreach_instr_safe: the saved successor
  state_progress,       \* state.progress of convert_impl
  progress,             \* progress of nir_lower_system_values
  functions0,           \* history: the functions at the call
  declared0,            \* history: system_values at the call
  at_start,             \* history: ids of the block when its traversal began
  examined,             \* history: ids the loop body has run on, in order
  rewrites,             \* history: [f, load_var, first, sysval, location] per rewrite
  impl_ret,             \* history: what convert_impl returned, per function
  gen                   \* a translation unit that includes gen_macros.h

vars ==
  <<functions, system_values, local_size, vertex_id_zero_based, ssa_index, pc,
    fi, bi, instr, next, state_progress, progress, functions0, declared0,
    at_start, examined, rewrites, impl_ret, gen>>

shader_info == <<local_size, vertex_id_zero_based>>

history0 == <<functions0, declared0, gen>>

LocalSizes == {<<4, 4, 1>>}

NotCompiled ==
  [status |-> "not compiled", defined |-> FALSE, versionx10 |-> 0, symbols |-> {},
   guard |-> "not evaluated"]

InitShader(shape, items, unread) ==
  /\ functions = BuildFunctions(shape, items)
  /\ functions0 = functions
  /\ system_values = DeclaredVars(items) \o unread
  /\ declared0 = system_values
  /\ ssa_index = Len(items) + 1
  /\ impl_ret = [f \in 1..Len(shape) |-> "not called"]

InitPass ==
  /\ pc = "foreach_function"
  /\ fi = 1
  /\ bi = 1
  /\ instr = 0
  /\ next = 0
  /\ state_progress = FALSE
  /\ progress = FALSE
  /\ at_start = <<>>
  /\ examined = <<>>
  /\ rewrites = {}

(* Any shader within the bounds, with the system values it reads declared. *)
Init ==
  /\ \E shape \in ShaderShapes :
       \E items \in [1..ShapeTotal(shape) -> Palette] :
         /\ WellFormedItems(shape, items)
         /\ InitShader(shape, items, <<>>)
  /\ local_size \in LocalSizes
  /\ vertex_id_zero_based \in BOOLEAN
  /\ InitPass
  /\ gen = NotCompiled

(* Shaders of declarations without body followed by at most one function  *)
(* with a body, of one block and the end block, over several workgroup     *)
(* sizes.                                                                  *)
EvalShapes ==
  {sh \in ShaderShapes :
     /\ \A f \in 1..Len(sh) : Len(sh[f].lens) <= 1
     /\ \A f \in 1..Len(sh) : sh[f].impl => f = Len(sh)}

EvalLocalSizes == {<<8, 1, 1>>, <<4, 4, 1>>, <<4, 4, 2>>}

(* Reads of the system values that are computed, and ALU uses of them.     *)
EvalPalette ==
  {it \in Palette :
     \/ it.kind = "alu"
     \/ it.loc \in {"SYSTEM_VALUE_GLOBAL_INVOCATION_ID",
                    "SYSTEM_VALUE_LOCAL_INVOCATION_INDEX",
                    "SYSTEM_VALUE_VERTEX_ID"}}

InitEval ==
  /\ \E shape \in EvalShapes :
       \E items \in [1..ShapeTotal(shape) -> EvalPalette] :
         /\ WellFormedItems(shape, items)
         /\ InitShader(shape, items, <<>>)
  /\ local_size \in EvalLocalSizes
  /\ vertex_id_zero_based \in BOOLEAN
  /\ InitPass
  /\ gen = NotCompiled

(* Shaders that may also declare a system value no instruction reads.      *)
DeclPalette ==
  {it \in Palette :
     it.kind = "local" \/ it.loc \in {"SYSTEM_VALUE_VERTEX_ID", "SYSTEM_VALUE_INSTANCE_ID"}}

UnreadDeclarations == {<<>>, <<SysvalVar("SYSTEM_VALUE_FRONT_FACE")>>}

InitDecl ==
  /\ \E shape \in ShaderShapes :
       \E items \in [1..ShapeTotal(shape) -> DeclPalette] :
         \E unread \in UnreadDeclarations :
           InitShader(shape, items, unread)
  /\ local_size \in LocalSizes
  /\ vertex_id_zero_based \in BOOLEAN
  /\ InitPass
  /\ gen = NotCompiled

(* ---------------- nir_lower_system_values ---------------- *)
(* `progress || convert_impl(function->impl)`: the call short-circuited.   *)
CallsConvertImplUnlessProgress(f) == functions[f].impl /\ ~progress

(* if (function->impl) progress = convert_impl(function->impl) || progress *)
CallsConvertImpl(f) == functions[f].impl

FunctionsDone ==
  /\ pc = "foreach_function"
  /\ fi > Len(functions)
  /\ pc' = "make_empty"
  /\ UNCHANGED <<functions, system_values, shader_info, ssa_index, fi, bi, instr,
                 next, state_progress, progress, history0, at_start, examined,
                 rewrites, impl_ret>>

SkipFunction ==
  /\ pc = "foreach_function"
  /\ fi <= Len(functions)
  /\ ~CallsConvertImpl(fi)
  /\ fi' = fi + 1
  /\ UNCHANGED <<functions, system_values, shader_info, ssa_index, pc, bi, instr,
                 next, state_progress, progress, history0, at_start, examined,
                 rewrites, impl_ret>>

(* convert_impl: state.progress = false; nir_foreach_block(...)            *)
ConvertImplEnter ==
  /\ pc = "foreach_function"
  /\ fi <= Len(functions)
  /\ CallsConvertImpl(fi)
  /\ state_progress' = FALSE
  /\ bi' = 1
  /\ pc' = "foreach_block"
  /\ UNCHANGED <<functions, system_values, shader_info, ssa_index, fi, instr,
                 next, progress, history0, at_start, examined, rewrites, impl_ret>>

(* convert_impl: return state.progress; and the caller's `|| progress`.    *)
ConvertImplReturn ==
  /\ pc = "foreach_block"
  /\ bi > Len(functions[fi].blocks)
  /\ impl_ret' = [impl_ret EXCEPT ![fi] = IF state_progress THEN "true" ELSE "false"]
  /\ progress' = (state_progress \/ progress)
  /\ fi' = fi + 1
  /\ pc' = "foreach_function"
  /\ UNCHANGED <<functions, system_values, shader_info, ssa_index, bi, instr,
                 next, state_progress, history0, at_start, examined, rewrites>>

(* The list cleared only when something was rewritten.                     *)
MakeEmptyIfProgress ==
  /\ pc = "make_empty"
  /\ system_values' = IF progress THEN <<>> ELSE system_values
  /\ pc' = "done"
  /\ UNCHANGED <<functions, shader_info, ssa_index, fi, bi, instr, next,
                 state_progress, progress, history0, at_start, examined,
                 rewrites, impl_ret>>

(* exec_list_make_empty(&shader->system_values); return progress;          *)
MakeEmpty ==
  /\ pc = "make_empty"
  /\ system_values' = <<>>
  /\ pc' = "done"
  /\ UNCHANGED <<functions, shader_info, ssa_index, fi, bi, instr, next,
                 state_progress, progress, history0, at_start, examined,
                 rewrites, impl_ret>>

(* ---------------- convert_block ---------------- *)
Block == functions[fi].blocks[bi]

(* nir_foreach_instr_safe: instr = head, next = instr->next.               *)
ConvertBlockEnter ==
  /\ pc = "foreach_block"
  /\ bi <= Len(functions[fi].blocks)
  /\ instr' = HeadId(Block)
  /\ next' = NextId(Block, HeadId(Block))
  /\ at_start' = Ids(Block)
  /\ examined' = <<>>
  /\ pc' = "foreach_instr"
  /\ UNCHANGED <<functions, system_values, shader_info, ssa_index, fi, bi,
                 state_progress, progress, history0, rewrites, impl_ret>>

(* nir_foreach_instr_safe: the loop ends at the tail; return true.         *)
ConvertBlockReturn ==
  /\ pc = "foreach_instr"
  /\ instr = 0
  /\ bi' = bi + 1
  /\ pc' = "foreach_block"
  /\ UNCHANGED <<functions, system_values, shader_info, ssa_index, fi, instr,
                 next, state_progress, progress, history0, at_start, examined,
                 rewrites, impl_ret>>

(* nir_foreach_instr: the successor read from `instr` after the body ran.  *)
AdvanceUnsafe(block_after, cur, saved_next) == NextId(block_after, cur)

(* nir_foreach_instr_safe: the step to the next instruction is the         *)
(* successor saved before the body ran.                                    *)
AdvanceInstr(block_after, cur, saved_next) == saved_next

Advance(block_after) ==
  LET to == AdvanceInstr(block_after, instr, next)
  IN  /\ instr' = to
      /\ next' = NextId(block_after, to)
      /\ examined' = Append(examined, instr)

(* state->progress = true reached by an instruction that is skipped.       *)
SkipInstrSetsProgress ==
  /\ pc = "foreach_instr"
  /\ instr # 0
  /\ ~IsSystemValueRead(Block[IndexOf(Block, instr)])
  /\ Advance(Block)
  /\ state_progress' = TRUE
  /\ UNCHANGED <<functions, system_values, shader_info, ssa_index, pc, fi, bi,
                 progress, history0, at_start, rewrites, impl_ret>>

(* One of the three `continue`s.                                           *)
SkipInstr ==
  /\ pc = "foreach_instr"
  /\ instr # 0
  /\ ~IsSystemValueRead(Block[IndexOf(Block, instr)])
  /\ Advance(Block)
  /\ UNCHANGED <<functions, system_values, shader_info, ssa_index, pc, fi, bi,
                 state_progress, progress, history0, at_start, rewrites, impl_ret>>

(* b->cursor = nir_after_block(block): the cursor after the last           *)
(* instruction of the block instead of after the read.                     *)
CursorAfterBlock(load_var) == Block[Len(Block)].id

(* b->cursor = nir_after_instr(&load_var->instr);                          *)
CursorFor(load_var) == load_var

(* The rewrite of one system-value read.                                   *)
LowerInstr ==
  /\ pc = "foreach_instr"
  /\ instr # 0
  /\ IsSystemValueRead(Block[IndexOf(Block, instr)])
  /\ \E order \in ArgOrders :
       LET var == Block[IndexOf(Block, instr)].var
           r == LowerSysval(MkBuilder(Block, CursorFor(instr), ssa_index),
                            var.location, local_size, vertex_id_zero_based, order)
           inserted == [functions[fi].blocks EXCEPT ![bi] = r.b.block]
           blocks == RewriteAndRemove(inserted, bi, instr, r.sysval)
       IN  /\ functions' = [functions EXCEPT ![fi].blocks = blocks]
           /\ ssa_index' = r.b.index
           /\ rewrites' = rewrites \cup
                {[f |-> fi, load_var |-> instr, first |-> ssa_index,
                  sysval |-> r.sysval, location |-> var.location]}
           /\ Advance(blocks[bi])
  /\ state_progress' = TRUE
  /\ UNCHANGED <<system_values, shader_info, pc, fi, bi, progress, history0,
                 at_start, impl_ret>>

Next ==
  \/ FunctionsDone
  \/ SkipFunction
  \/ ConvertImplEnter
  \/ ConvertImplReturn
  \/ MakeEmpty
  \/ ConvertBlockEnter
  \/ ConvertBlockReturn
  \/ SkipInstr
  \/ LowerInstr

Spec == Init /\ [][Next]_vars

SpecEval == InitEval /\ [][Next]_vars

SpecDecl == InitDecl /\ [][Next]_vars

(* ---------------- gen_macros.h ---------------- *)
(* #define GEN_GEN ((GEN_VERSIONx10) / 10) *)
GEN_GEN(versionx10) == versionx10 \div 10

(* #define GEN_IS_HASWELL ((GEN_VERSIONx10) == 75) *)
GEN_IS_HASWELL(versionx10) == versionx10 = 75

(* The gens the prefixing macros are defined for; any other is an #error.  *)
SupportedGens == {70, 75, 80, 90}

(* GENX(X) and genX(x): the prefix and the name it is pasted to.           *)
GENX(versionx10, X) ==
  CASE versionx10 = 70 -> <<"GEN7_", X>>
    [] versionx10 = 75 -> <<"GEN75_", X>>
    [] versionx10 = 80 -> <<"GEN8_", X>>
    [] versionx10 = 90 -> <<"GEN9_", X>>

genX(versionx10, x) ==
  CASE versionx10 = 70 -> <<"gen7_", x>>
    [] versionx10 = 75 -> <<"gen75_", x>>
    [] versionx10 = 80 -> <<"gen8_", x>>
    [] versionx10 = 90 -> <<"gen9_", x>>

(* The documented pseudo-runtime check: if (GEN_GEN > 8 || GEN_IS_HASWELL) *)
PseudoRuntimeCheck(versionx10) ==
  GEN_GEN(versionx10) > 8 \/ GEN_IS_HASWELL(versionx10)

(* What -DGEN_VERSIONx10=... the file is compiled with, and the names it   *)
(* prefixes.                                                               *)
CommandLineGens == {60, 70, 75, 80, 90, 100}

PrefixedNames == {"my_function_name", "3DSTATE_VS"}

InitGen ==
  /\ \E d \in BOOLEAN :
       \E v \in CommandLineGens :
         gen = [status |-> "command line", defined |-> d,
                versionx10 |-> IF d THEN v ELSE 0, symbols |-> {},
                guard |-> "not evaluated"]
  /\ functions = <<>>
  /\ functions0 = <<>>
  /\ system_values = <<>>
  /\ declared0 = <<>>
  /\ ssa_index = 1
  /\ impl_ret = <<>>
  /\ local_size \in LocalSizes
  /\ vertex_id_zero_based = FALSE
  /\ InitPass

pass_vars ==
  <<functions, system_values, local_size, vertex_id_zero_based, ssa_index, pc,
    fi, bi, instr, next, state_progress, progress, functions0, declared0,
    at_start, examined, rewrites, impl_ret>>

(* #ifndef GEN_VERSIONx10 / #error; #else / #error of the prefixing macros *)
GenInclude ==
  /\ gen.status = "command line"
  /\ gen' = [gen EXCEPT !.status =
               IF gen.defined /\ gen.versionx10 \in SupportedGens
               THEN "included" ELSE "error"]
  /\ UNCHANGED pass_vars

GenUseGENX ==
  /\ gen.status = "included"
  /\ \E X \in PrefixedNames :
       gen' = [gen EXCEPT !.symbols = @ \cup {GENX(gen.versionx10, X)}]
  /\ UNCHANGED pass_vars

GenUsegenX ==
  /\ gen.status = "included"
  /\ \E x \in PrefixedNames :
       gen' = [gen EXCEPT !.symbols = @ \cup {genX(gen.versionx10, x)}]
  /\ UNCHANGED pass_vars

GenUseCheck ==
  /\ gen.status = "included"
  /\ gen.guard = "not evaluated"
  /\ gen' = [gen EXCEPT !.guard =
               IF PseudoRuntimeCheck(gen.versionx10)
               THEN "compiled in" ELSE "compiled away"]
  /\ UNCHANGED pass_vars

GenNext ==
  \/ GenInclude
  \/ GenUseGENX
  \/ GenUsegenX
  \/ GenUseCheck

SpecGen == InitGen /\ [][GenNext]_vars

(* ---------------- properties of the lowering pass ---------------- *)
Range(seq) == {seq[k] : k \in 1..Len(seq)}

(* The instructions of the body of function f of a function list.          *)
BodyInstrs(fs, f) == UNION {Range(fs[f].blocks[bk]) : bk \in 1..Len(fs[f].blocks)}

IsSysvalLoad(i) ==
  i.type = "intrinsic" /\ i.op = "load_var" /\ i.var.mode = "nir_var_system_value"

HadSysvalLoad(f) == \E i \in BodyInstrs(functions0, f) : IsSysvalLoad(i)

Returned == pc = "done"

(* The loop over the functions has moved past function f.                  *)
FunctionDone(f) == f < fi \/ pc \in {"make_empty", "done"}

(* convert_block has returned for block bk of function f.                  *)
BlockDone(f, bk) ==
  \/ FunctionDone(f)
  \/ /\ f = fi
     /\ pc \in {"foreach_block", "foreach_instr"}
     /\ bk < bi

(* C1: once convert_block has returned for a block, and so for every block *)
(* of every body after nir_lower_system_values returns, the block holds no *)
(* load_var of a system_value variable: every such read of the input has   *)
(* been removed from its block.                                            *)
C1_NoSystemValueReadRemains ==
  \A f \in 1..Len(functions) :
    \A bk \in 1..Len(functions[f].blocks) :
      BlockDone(f, bk) =>
        /\ \A i \in Range(functions[f].blocks[bk]) : ~IsSysvalLoad(i)
        /\ \A i0 \in Range(functions0[f].blocks[bk]) :
             IsSysvalLoad(i0) => ~HasInstr(functions[f].blocks[bk], i0.id)

(* A returned run whose input had a block that starts with two adjacent    *)
(* reads of different system values and ends with a read.                  *)
C1_Witness ==
  /\ Returned
  /\ \E f \in 1..Len(functions0) :
       \E bk \in 1..Len(functions0[f].blocks) :
         LET blk == functions0[f].blocks[bk]
         IN  /\ Len(blk) >= 2
             /\ IsSysvalLoad(blk[1])
             /\ IsSysvalLoad(blk[2])
             /\ IsSysvalLoad(blk[Len(blk)])
             /\ blk[1].var.location # blk[2].var.location

Rewritten == {r.load_var : r \in rewrites}

Replacement(d) ==
  IF d \in Rewritten THEN (CHOOSE r \in rewrites : r.load_var = d).sysval ELSE d

InputCount == Sum([f \in 1..Len(functions0) |-> Cardinality(BodyInstrs(functions0, f))])

(* C2: no instruction uses the value of a removed read; every instruction  *)
(* of the input still present uses, where it used a removed read, the last *)
(* value built for that rewrite and otherwise what it used before; every   *)
(* use points to a definition present in the same function.                *)
C2_UsesRedirected ==
  \A f \in 1..Len(functions) :
    /\ \A i \in BodyInstrs(functions, f) :
         \A k \in 1..Len(i.srcs) :
           /\ i.srcs[k] \notin Rewritten
           /\ \E d \in BodyInstrs(functions, f) :
                d.id = i.srcs[k] /\ d.num_components > 0
    /\ \A i0 \in BodyInstrs(functions0, f) :
         \A i \in BodyInstrs(functions, f) :
           i.id = i0.id =>
             i.srcs = [k \in 1..Len(i0.srcs) |-> Replacement(i0.srcs[k])]
    /\ \A i \in BodyInstrs(functions, f) :
         i.id > InputCount =>
           \E r \in rewrites : r.f = f /\ r.first <= i.id /\ i.id <= r.sysval

BlockOf(f, id) ==
  CHOOSE bk \in 1..Len(functions[f].blocks) : HasInstr(functions[f].blocks[bk], id)

(* A returned run in which an instruction of the input, in another block   *)
(* than the rewritten read, now uses the new value, and another use in the *)
(* function was of a value that was not rewritten.                         *)
C2_Witness ==
  /\ Returned
  /\ \E r \in rewrites :
       \E i, j \in BodyInstrs(functions, r.f) :
         /\ i.id <= InputCount
         /\ r.sysval \in Range(i.srcs)
         /\ BlockOf(r.f, i.id) # BlockOf(r.f, r.sysval)
         /\ j.id <= InputCount
         /\ j.srcs # <<>>
         /\ \A k \in 1..Len(j.srcs) : j.srcs[k] <= InputCount

(* C3: a body without a load_var of a system_value variable is left        *)
(* exactly as it was and convert_impl returns false for it.                *)
C3_NoReadNoProgress ==
  \A f \in 1..Len(functions) :
    functions0[f].impl /\ ~HadSysvalLoad(f) =>
      /\ functions[f] = functions0[f]
      /\ impl_ret[f] # "true"
      /\ (f < fi \/ pc \in {"make_empty", "done"}) => impl_ret[f] = "false"

(* A returned run with a body that holds a load_var of a local and another *)
(* instruction, but no system-value read.                                  *)
C3_Witness ==
  /\ Returned
  /\ \E f \in 1..Len(functions) :
       /\ functions0[f].impl
       /\ ~HadSysvalLoad(f)
       /\ \E i \in BodyInstrs(functions0, f) : i.op = "load_var"
       /\ \E i \in BodyInstrs(functions0, f) : i.op # "load_var"
       /\ impl_ret[f] = "false"
       /\ functions[f] = functions0[f]

(* C4: the result is true exactly when some body held a system-value read; *)
(* it is the OR of what convert_impl returned; convert_impl is called for  *)
(* every function with a body and for no other.                            *)
C4_ProgressIsOr ==
  /\ \A f \in 1..Len(functions) :
       FunctionDone(f) =>
         impl_ret[f] = IF ~functions0[f].impl THEN "not called"
                       ELSE IF HadSysvalLoad(f) THEN "true" ELSE "false"
  /\ Returned =>
       /\ progress = (\E f \in 1..Len(functions) :
                        functions0[f].impl /\ HadSysvalLoad(f))
       /\ progress = (rewrites # {})
       /\ progress = (\E f \in 1..Len(functions) : impl_ret[f] = "true")

(* A returned run of two bodies in which the second was lowered after the  *)
(* first had already reported progress.                                    *)
C4_Witness ==
  /\ Returned
  /\ Len(functions) >= 2
  /\ impl_ret[1] = "true"
  /\ impl_ret[2] = "true"
  /\ \E r \in rewrites : r.f = 2

(* C5: after the run the declared system-value list is empty.              *)
C5_SystemValuesCleared ==
  Returned => system_values = <<>>

(* A returned run that rewrote nothing although a variable was declared.   *)
C5_Witness ==
  /\ Returned
  /\ declared0 # <<>>
  /\ ~progress
  /\ system_values = <<>>

(* C10: the traversal of a block runs the loop body on the instructions    *)
(* the block held when it began, each once and in block order, on no       *)
(* inserted instruction, and ends when all of them have been examined.     *)
C10_TraversalInOrder ==
  pc = "foreach_instr" =>
    /\ Len(examined) <= Len(at_start)
    /\ examined = SubSeq(at_start, 1, Len(examined))
    /\ (instr = 0) = (Len(examined) = Len(at_start))
    /\ instr # 0 => instr = at_start[Len(examined) + 1]

(* The end of the traversal of a block in which two reads were rewritten   *)
(* and an instruction was skipped.                                         *)
C10_Witness ==
  /\ pc = "foreach_instr"
  /\ instr = 0
  /\ examined = at_start
  /\ Cardinality({r \in rewrites : r.f = fi /\ r.load_var \in Range(at_start)}) >= 2
  /\ \E id \in Range(at_start) : id \notin Rewritten
  /\ Len(Block) > Len(at_start)

(* ---------------- where the new instructions are placed ---------------- *)
(* An instruction's id is the SSA index it was given when it was created,  *)
(* so the instructions of the rewrite r in creation order are r.first up   *)
(* to r.sysval.                                                            *)
CreatedBy(r) == [k \in 1..(r.sysval - r.first + 1) |-> r.first + k - 1]

(* What stands for the instruction `id` of the input of function f: the    *)
(* instructions created for its rewrite if it was rewritten, else itself.  *)
Expansion(f, id) ==
  IF \E r \in rewrites : r.f = f /\ r.load_var = id
  THEN CreatedBy(CHOOSE r \in rewrites : r.f = f /\ r.load_var = id)
  ELSE <<id>>

RECURSIVE ExpectedIds(_, _)
ExpectedIds(f, ids) ==
  IF ids = <<>> THEN <<>>
  ELSE Expansion(f, ids[1]) \o ExpectedIds(f, Tail(ids))

(* The definition `src` stands before position p of block bk of f.         *)
DefinedBefore(f, src, bk, p) ==
  \E bd \in 1..bk :
    /\ HasInstr(functions[f].blocks[bd], src)
    /\ bd = bk => IndexOf(functions[f].blocks[bd], src) < p

(* C11: every block holds the instructions of the input in their order,    *)
(* with each rewritten read replaced, at its position, by the instructions *)
(* created for it, contiguous and in creation order, and nothing else; an  *)
(* inserted instruction stands after the inserted instructions of the same *)
(* rewrite that produce its operands, and every instruction, the uses of a *)
(* replaced value included, stands after the definitions it uses.          *)
C11_InsertedInPlace ==
  \A f \in 1..Len(functions) :
    \A bk \in 1..Len(functions[f].blocks) :
      LET blk == functions[f].blocks[bk]
      IN  /\ Ids(blk) = ExpectedIds(f, Ids(functions0[f].blocks[bk]))
          /\ \A p \in 1..Len(blk) :
               \A k \in 1..Len(blk[p].srcs) :
                 /\ DefinedBefore(f, blk[p].srcs[k], bk, p)
                 /\ blk[p].id > InputCount =>
                      /\ HasInstr(blk, blk[p].srcs[k])
                      /\ \E r \in rewrites :
                           /\ r.f = f
                           /\ r.first <= blk[p].srcs[k]
                           /\ blk[p].srcs[k] < blk[p].id
                           /\ blk[p].id <= r.sysval

(* A returned run in which a read standing between an instruction that is  *)
(* kept and a use of the read was replaced by five or more instructions,   *)
(* and the use now reads the last of them.                                 *)
C11_Witness ==
  /\ Returned
  /\ \E r \in rewrites :
       \E bk \in 1..Len(functions0[r.f].blocks) :
         LET blk0 == functions0[r.f].blocks[bk]
             blk == functions[r.f].blocks[bk]
         IN  /\ r.sysval - r.first >= 4
             /\ Len(blk0) = 3
             /\ ~IsSysvalLoad(blk0[1])
             /\ blk0[2].id = r.load_var
             /\ r.load_var \in Range(blk0[3].srcs)
             /\ blk[1].id = blk0[1].id
             /\ blk[Len(blk)].id = blk0[3].id
             /\ r.sysval \in Range(blk[Len(blk)].srcs)

(* ---------------- the value a definition computes ---------------- *)
(* What the hardware supplies for each load intrinsic in one invocation:   *)
(* the work group id g, the local invocation id l and v = <<zero-based     *)
(* vertex id, base vertex>>.  The values are small enough that no 32-bit   *)
(* sum or product wraps.                                                   *)
GroupIds == {<<2, 0, 0>>, <<1, 2, 3>>}

LocalIds == {<<3, 0, 0>>, <<1, 2, 0>>, <<1, 3, 2>>}

VertexIds == {<<5, 100>>, <<7, 0>>}

Env(g, l, v) ==
  [load_work_group_id |-> g, load_local_invocation_id |-> l,
   load_vertex_id |-> <<v[1] + v[2]>>, load_vertex_id_zero_base |-> <<v[1]>>,
   load_base_vertex |-> <<v[2]>>, load_instance_id |-> <<3>>,
   load_base_instance |-> <<10>>]

InstrOf(f, id) ==
  LET blk == functions[f].blocks[BlockOf(f, id)]
  IN  blk[IndexOf(blk, id)]

(* The vector the definition `id` of function f evaluates to under env.    *)
RECURSIVE Eval(_, _, _)
Eval(f, id, env) ==
  LET i == InstrOf(f, id)
  IN  CASE i.type = "load_const" -> i.value
        [] i.type = "intrinsic" -> env[i.op]
        [] i.op = "imov" -> <<Eval(f, i.srcs[1], env)[i.swizzle[1] + 1]>>
        [] i.op = "imul" ->
             LET x == Eval(f, i.srcs[1], env)
                 y == Eval(f, i.srcs[2], env)
             IN  [c \in 1..i.num_components |-> x[c] * y[c]]
        [] i.op = "iadd" ->
             LET x == Eval(f, i.srcs[1], env)
                 y == Eval(f, i.srcs[2], env)
             IN  [c \in 1..i.num_components |-> x[c] + y[c]]

(* The instructions inserted for the rewrite r.                            *)
Inserted(r) == {i \in BodyInstrs(functions, r.f) : r.first <= i.id /\ i.id <= r.sysval}

InsertedLoads(r) == {i.op : i \in {j \in Inserted(r) : j.type = "intrinsic"}}

(* The rewrites of reads of `location` that are the latest rewrite of the  *)
(* run so far, and all of them once the pass has returned.                 *)
RewritesOf(location) ==
  {r \in rewrites :
     r.location = location /\ (r.sysval = ssa_index - 1 \/ Returned)}

(* C6: right after the rewrite and when the pass has returned,             *)
(* the value that replaces a read of the global invocation id is, in       *)
(* every component c, group_id[c] * local_size[c] + local_id[c], with      *)
(* group_id and local_id read by inserted load_work_group_id and           *)
(* load_local_invocation_id intrinsics.                                    *)
C6_GlobalInvocationId ==
  \A r \in RewritesOf("SYSTEM_VALUE_GLOBAL_INVOCATION_ID") :
    /\ InsertedLoads(r) = {"load_work_group_id", "load_local_invocation_id"}
    /\ InstrOf(r.f, r.sysval).num_components = 3
    /\ \A g \in GroupIds, l \in LocalIds :
         Eval(r.f, r.sysval, Env(g, l, <<0, 0>>)) =
           [c \in 1..3 |-> g[c] * local_size[c] + l[c]]

(* Size (8,1,1), group id (2,0,0), local id (3,0,0) gives (19,0,0).        *)
C6_Witness ==
  /\ local_size = <<8, 1, 1>>
  /\ \E r \in RewritesOf("SYSTEM_VALUE_GLOBAL_INVOCATION_ID") :
       Eval(r.f, r.sysval, Env(<<2, 0, 0>>, <<3, 0, 0>>, <<0, 0>>)) = <<19, 0, 0>>

(* C7: right after the rewrite and when the pass has returned,             *)
(* the value that replaces a read of the local invocation index is the     *)
(* scalar local_id.z * size_x * size_y + local_id.y * size_x + local_id.x, *)
(* with local_id read by one inserted load_local_invocation_id; the third  *)
(* component of the workgroup size does not enter.                         *)
C7_LocalInvocationIndex ==
  \A r \in RewritesOf("SYSTEM_VALUE_LOCAL_INVOCATION_INDEX") :
    /\ InsertedLoads(r) = {"load_local_invocation_id"}
    /\ Cardinality({i \in Inserted(r) : i.type = "intrinsic"}) = 1
    /\ {i.value : i \in {j \in Inserted(r) : j.type = "load_const"}}
         = {<<local_size[1]>>, <<local_size[2]>>}
    /\ \A l \in LocalIds :
         Eval(r.f, r.sysval, Env(<<0, 0, 0>>, l, <<0, 0>>)) =
           <<l[3] * local_size[1] * local_size[2] + l[2] * local_size[1] + l[1]>>

(* Size (4,4,1), local id (1,2,0) gives 9.                                 *)
C7_Witness ==
  /\ local_size = <<4, 4, 1>>
  /\ \E r \in RewritesOf("SYSTEM_VALUE_LOCAL_INVOCATION_INDEX") :
       Eval(r.f, r.sysval, Env(<<0, 0, 0>>, <<1, 2, 0>>, <<0, 0>>)) = <<9>>

(* C8: right after the rewrite and when the pass has returned,             *)
(* with vertex_id_zero_based the value that replaces a read of the         *)
(* vertex id is vertex_id_zero_base + base_vertex, both read by inserted   *)
(* intrinsics; without it, it is one inserted load_vertex_id and nothing   *)
(* else.                                                                   *)
C8_VertexId ==
  \A r \in RewritesOf("SYSTEM_VALUE_VERTEX_ID") :
    IF vertex_id_zero_based
    THEN /\ InsertedLoads(r) = {"load_vertex_id_zero_base", "load_base_vertex"}
         /\ \A v \in VertexIds :
              Eval(r.f, r.sysval, Env(<<0, 0, 0>>, <<0, 0, 0>>, v)) = <<v[1] + v[2]>>
    ELSE /\ Inserted(r) = {InstrOf(r.f, r.sysval)}
         /\ InstrOf(r.f, r.sysval).type = "intrinsic"
         /\ InstrOf(r.f, r.sysval).op = "load_vertex_id"
         /\ InstrOf(r.f, r.sysval).srcs = <<>>

(* Zero-based vertex id 5 and base vertex 100 give 105.                    *)
C8_Witness ==
  /\ vertex_id_zero_based
  /\ \E r \in RewritesOf("SYSTEM_VALUE_VERTEX_ID") :
       Eval(r.f, r.sysval, Env(<<0, 0, 0>>, <<0, 0, 0>>, <<5, 100>>)) = <<105>>

(* C9: on every supported gen the check GEN_GEN > 8 || GEN_IS_HASWELL is   *)
(* true only on Haswell: where the guarded code is compiled in, the gen is *)
(* 75.                                                                     *)
C9_CheckTrueOnlyOnHaswell ==
  gen.guard = "compiled in" => GEN_IS_HASWELL(gen.versionx10)

====
